---------------------------- MODULE Spec2Model ----------------------------
(***************************************************************************)
(* Model of the beaver / water-quality pipeline of src/lambda/handler.py:  *)
(* lambda_handler runs fetch_beaver_data, fetch_water_quality_data,        *)
(* spatial_join, the S3 put and load_to_rds in sequence.                   *)
(*                                                                         *)
(* Spec is one invocation of lambda_handler.  SpecLoad is a series of      *)
(* invocations against the same database table, each taken at its call of  *)
(* load_to_rds.  SpecMatch runs the handler's spatial_join and the         *)
(* matcher of src/notebooks/beaver_data_engineer.py (CELL 9, CELL 10) on   *)
(* the same frames.                                                        *)
(*                                                                         *)
(* Number representation.  The code computes in IEEE doubles; the model    *)
(* computes in fixed point with SCALE units per 1.0 and round-to-nearest   *)
(* after every multiplication, division and square root, so that rounding  *)
(* exists in the model as it does in the code.  A float is a record        *)
(* [nan, v]: NaN is a value of its own, as in numpy/pandas.  Angles in     *)
(* radians are integer multiples of pi/24, which represents exactly every  *)
(* coordinate that is a multiple of 7.5 degrees.                           *)
(***************************************************************************)
EXTENDS Integers, Sequences, FiniteSets, TLC

(***************************************************************************)
(* Bounds of the model.                                                    *)
(***************************************************************************)
\* number of GBIF pages the handler's limit covers, the last one in part
MaxPages == 2
\* most entries of the USGS 'timeSeries' list
MaxSeries == 2

(***************************************************************************)
(* Program constants.                                                      *)
(***************************************************************************)
\* range(0, limit, 300) and "limit": 300
PageSize == 300
\* distances_km = 2 * 6371 * arcsin(sqrt(a))
EarthRadiusKm == 6371
\* status_code != 200
HttpOk == 200
\* 'statusCode': 200 / 'statusCode': 500
StatusComplete == 200
StatusFailed == 500

\* fixed-point unit: SCALE represents 1.0
SCALE == 10000

(***************************************************************************)
(* Floats.                                                                 *)
(***************************************************************************)
NaN == [nan |-> TRUE, v |-> 0]
Num(x) == [nan |-> FALSE, v |-> x]
IsNaN(f) == f.nan

Abs(x) == IF x < 0 THEN -x ELSE x

\* x / y rounded to the nearest integer (ties away from zero), y > 0
RDiv(x, y) == IF x >= 0 THEN (2 * x + y) \div (2 * y)
                        ELSE -((2 * (-x) + y) \div (2 * y))

\* product of two fixed-point numbers, rounded
RMul(x, y) == RDiv(x * y, SCALE)

RECURSIVE FloorSqrtIn(_, _, _)
FloorSqrtIn(n, lo, hi) ==
    IF lo >= hi THEN lo
    ELSE LET mid == (lo + hi + 1) \div 2
         IN  IF mid * mid <= n THEN FloorSqrtIn(n, mid, hi)
                               ELSE FloorSqrtIn(n, lo, mid - 1)

\* np.sqrt on a fixed-point number: NaN for a negative argument
Sqrt(x) ==
    IF x < 0 THEN NaN
    ELSE LET n == x * SCALE
             f == FloorSqrtIn(n, 0, 2 * SCALE)
         IN  Num(IF n - f * f > f THEN f + 1 ELSE f)

(***************************************************************************)
(* Trigonometry on angles that are multiples of pi/24 (7.5 degrees).       *)
(***************************************************************************)
\* sin(k * pi/24) * SCALE for k = 0..12, rounded to nearest
SinTab == <<0, 1305, 2588, 3827, 5000, 6088, 7071, 7934, 8660, 9239, 9659,
            9914, 10000>>

\* pi/24 * SCALE, rounded: 1308.997
AngleUnit == 1309

\* np.radians: degrees to radians (in units of pi/24)
Radians(deg) == (deg * 24) \div 180

\* np.sin of an angle in units of pi/24
Sin(k) ==
    LET m == k % 48
    IN  IF m <= 12 THEN SinTab[m + 1]
        ELSE IF m <= 24 THEN SinTab[24 - m + 1]
        ELSE IF m <= 36 THEN -SinTab[m - 24 + 1]
        ELSE -SinTab[48 - m + 1]

\* np.cos of an angle in units of pi/24
Cos(k) == Sin(k + 12)

\* np.arcsin on a float: NaN outside [-1, 1] (and of NaN); the result is in
\* radians * SCALE, interpolated linearly between the knots of SinTab
Arcsin(f) ==
    IF IsNaN(f) \/ f.v > SCALE \/ f.v < 0 - SCALE THEN NaN
    ELSE LET x == Abs(f.v)
             k == CHOOSE j \in 0..11 : /\ SinTab[j + 1] <= x
                                       /\ (x <= SinTab[j + 2])
                                       /\ (j = 0 \/ SinTab[j + 1] < x)
             y == AngleUnit * k
                  + RDiv(AngleUnit * (x - SinTab[k + 1]),
                         SinTab[k + 2] - SinTab[k + 1])
         IN  Num(IF f.v < 0 THEN -y ELSE y)

\* A haversine that takes the cosine of the first latitude twice
HaversineOneCosine(lat1, lon1, lat2, lon2) ==
    LET dlat == lat2 - lat1
        dlon == lon2 - lon1
        sdlat == Sin(dlat \div 2)
        sdlon == Sin(dlon \div 2)
        a == RMul(sdlat, sdlat)
             + RMul(RMul(Cos(lat1), Cos(lat1)), RMul(sdlon, sdlon))
        r == Arcsin(Sqrt(a))
    IN  IF IsNaN(r) THEN NaN
        ELSE Num(RDiv(2 * EarthRadiusKm * r.v, SCALE))

\* lines 125-128: the haversine distance in km from (lat1, lon1) to
\* (lat2, lon2), all four in radians (units of pi/24)
Haversine(lat1, lon1, lat2, lon2) ==
    LET dlat == lat2 - lat1
        dlon == lon2 - lon1
        sdlat == Sin(dlat \div 2)
        sdlon == Sin(dlon \div 2)
        a == RMul(sdlat, sdlat)
             + RMul(RMul(Cos(lat1), Cos(lat2)), RMul(sdlon, sdlon))
        r == Arcsin(Sqrt(a))
    IN  IF IsNaN(r) THEN NaN
        ELSE Num(RDiv(2 * EarthRadiusKm * r.v, SCALE))

(***************************************************************************)
(* Inputs: what the two remote APIs may answer.                            *)
(***************************************************************************)
\* a raw JSON scalar of a GBIF record: null, a number or a string
Null == [kind |-> "null", v |-> 0]
Number(x) == [kind |-> "num", v |-> x]
Str == [kind |-> "str", v |-> 0]

RawSubject(y, lat, lon) ==
    [species |-> "Castor canadensis", year |-> y,
     decimalLatitude |-> lat, decimalLongitude |-> lon]

\* GBIF records (degrees): two usable points, a missing latitude, a latitude
\* out of range and a non-numeric longitude
RawSubjectRows ==
    { RawSubject(2019, Number(0), Number(0)),
      RawSubject(2020, Number(30), Number(0)),
      RawSubject(2021, Null, Number(30)),
      RawSubject(2022, Number(120), Number(0)),
      RawSubject(2023, Number(0), Str) }

\* response.json()['results'] of one page: no record, or one
Batches == {<<>>} \cup { <<r>> : r \in RawSubjectRows }

\* HTTP status codes of a response
StatusCodes == {HttpOk, 503}

\* raw reading['value'] strings, one character per element
Raw72 == <<"7", ".", "2">>
RawBad == <<"b", "a", "d">>
Raw80 == <<"8", ".", "0">>

\* site names in lexicographic order
SiteOrder == <<"X", "Y">>

\* sourceInfo of a USGS time series: siteName and geogLocation (degrees)
SourceInfos ==
    { [siteName |-> "X", latitude |-> 0, longitude |-> 30],
      [siteName |-> "X", latitude |-> 60, longitude |-> 0],
      [siteName |-> "Y", latitude |-> 0, longitude |-> -30] }

\* station['values'][0]['value'] of one time series: the raw values read
ValueLists == { <<Raw72, RawBad, Raw80>>, <<RawBad>> }

\* one entry of response.json()['value']['timeSeries']
Series == [sourceInfo : SourceInfos, values : ValueLists]

TimeSeriesLists == UNION { [1..n -> Series] : n \in 0..MaxSeries }

(***************************************************************************)
(* Results of a function that may raise.                                   *)
(***************************************************************************)
Ok(x) == [ok |-> TRUE, val |-> x, err |-> "none"]
Raise(e) == [ok |-> FALSE, val |-> <<>>, err |-> e]

(***************************************************************************)
(* Sequence helpers.                                                       *)
(***************************************************************************)
RECURSIVE SelectSeqIdx(_, _, _)
\* the elements s[i], i >= from, with keep[i], in order
SelectSeqIdx(s, keep, from) ==
    IF from > Len(s) THEN <<>>
    ELSE (IF keep[from] THEN <<s[from]>> ELSE <<>>)
         \o SelectSeqIdx(s, keep, from + 1)

RECURSIVE Concat(_)
Concat(ss) == IF ss = <<>> THEN <<>> ELSE Head(ss) \o Concat(Tail(ss))

(***************************************************************************)
(* fetch_beaver_data, lines 56-59: DataFrame, column selection, dropna.    *)
(***************************************************************************)
\* pandas isna of a raw scalar
IsNullCell(c) == c.kind = "null"

\* line 58: df.dropna(subset=['decimalLatitude', 'decimalLongitude'])
DropNa(rows) ==
    SelectSeqIdx(rows,
                 [i \in 1..Len(rows) |->
                     /\ ~IsNullCell(rows[i].decimalLatitude)
                     /\ ~IsNullCell(rows[i].decimalLongitude)],
                 1)

\* lines 56-59: an empty record list gives a frame without columns, and
\* selecting the columns raises KeyError
BeaverFrame(records) ==
    IF records = <<>> THEN Raise("KeyError") ELSE Ok(DropNa(records))

(***************************************************************************)
(* fetch_water_quality_data, lines 80-103.                                 *)
(***************************************************************************)
Digits == <<"0", "1", "2", "3", "4", "5", "6", "7", "8", "9">>
IsDigit(c) == \E i \in 1..10 : Digits[i] = c
DigitOf(c) == (CHOOSE i \in 1..10 : Digits[i] = c) - 1

RECURSIVE ParseDigits(_, _)
ParseDigits(s, acc) ==
    IF s = <<>> THEN acc ELSE ParseDigits(Tail(s), 10 * acc + DigitOf(Head(s)))

RECURSIVE Pow10(_)
Pow10(n) == IF n = 0 THEN 1 ELSE 10 * Pow10(n - 1)

\* line 102: pd.to_numeric(., errors='coerce') of one raw string: a decimal
\* numeral [-]digits[.digits] becomes its value, anything else NaN
ToNumeric(s) ==
    LET neg == Len(s) > 0 /\ s[1] = "-"
        body == IF neg THEN Tail(s) ELSE s
        dots == {i \in 1..Len(body) : body[i] = "."}
        valid == /\ Cardinality(dots) <= 1
                 /\ \A i \in 1..Len(body) : i \in dots \/ IsDigit(body[i])
                 /\ \E i \in 1..Len(body) : IsDigit(body[i])
    IN  IF ~valid THEN NaN
        ELSE LET dot == IF dots = {} THEN Len(body) + 1
                        ELSE CHOOSE i \in dots : TRUE
                 ip == ParseDigits(SubSeq(body, 1, dot - 1), 0)
                 fr == SubSeq(body, dot + 1, Len(body))
                 mag == ip * SCALE
                        + RDiv(ParseDigits(fr, 0) * SCALE, Pow10(Len(fr)))
             IN  Num(IF neg THEN -mag ELSE mag)

\* lines 92-99: the records of one time series, 'dissolved_oxygen' still raw
SeriesRecords(st) ==
    [i \in 1..Len(st.values) |->
        [site_name |-> st.sourceInfo.siteName,
         latitude |-> st.sourceInfo.latitude,
         longitude |-> st.sourceInfo.longitude,
         dissolved_oxygen |-> st.values[i]]]

\* lines 85-99
WaterRecords(time_series) ==
    Concat([k \in 1..Len(time_series) |-> SeriesRecords(time_series[k])])

\* lines 80-103
fetch_water_quality_data(status_code, time_series) ==
    IF status_code # HttpOk THEN Raise("Exception")
    ELSE LET records == WaterRecords(time_series)
         IN  IF records = <<>> THEN Raise("KeyError")
             ELSE Ok([i \in 1..Len(records) |->
                        [records[i] EXCEPT
                           !.dissolved_oxygen = ToNumeric(@)]])

(***************************************************************************)
(* spatial_join, lines 106-151.                                            *)
(***************************************************************************)
\* DataFrame.drop_duplicates(): the first occurrence of every distinct row,
\* in order of occurrence
DropDuplicates(rows) ==
    SelectSeqIdx(rows,
                 [i \in 1..Len(rows) |-> \A j \in 1..(i - 1) : rows[j] # rows[i]],
                 1)

\* line 111: df_water[['site_name', 'latitude', 'longitude']]
\*           .drop_duplicates().reset_index(drop=True)
StationTable(water) ==
    DropDuplicates([i \in 1..Len(water) |->
                      [site_name |-> water[i].site_name,
                       latitude |-> water[i].latitude,
                       longitude |-> water[i].longitude]])

\* lines 118-128: distances_km of one subject row to every station row
DistancesKm(row, stations) ==
    [j \in 1..Len(stations) |->
        Haversine(Radians(row.decimalLatitude.v),
                  Radians(row.decimalLongitude.v),
                  Radians(stations[j].latitude),
                  Radians(stations[j].longitude))]

\* ArgMin with the comparison turned round: the farthest station
ArgMinAsArgMax(d) ==
    CHOOSE j \in 1..Len(d) : \A k \in 1..Len(d) : d[j].v >= d[k].v

\* ArgMin keeping the last index of the minimum instead of the first
ArgMinLastOfTies(d) ==
    LET least == {j \in 1..Len(d) : \A k \in 1..Len(d) : d[j].v <= d[k].v}
    IN  CHOOSE j \in least : \A k \in least : j >= k

\* line 130, np.argmin of a non-empty array: the first NaN if there is one,
\* else the first index of the minimum (1-based here)
ArgMin(d) ==
    LET nans == {j \in 1..Len(d) : IsNaN(d[j])}
        least == {j \in 1..Len(d) : \A k \in 1..Len(d) : d[j].v <= d[k].v}
        pick == IF nans # {} THEN nans ELSE least
    IN  CHOOSE j \in pick : \A k \in pick : j <= k

\* what the loop body of lines 121-132 raises for one row: np.radians of a
\* str raises TypeError, np.argmin of an empty array raises ValueError
RowError(row, stations) ==
    IF row.decimalLatitude.kind # "num" THEN "TypeError"
    ELSE IF row.decimalLongitude.kind # "num" THEN "TypeError"
    ELSE IF stations = <<>> THEN "ValueError"
    ELSE "none"

\* lines 134-144: one row of df_joined
JoinedRow(row, station, dist) ==
    [species |-> row.species,
     year |-> row.year,
     decimalLatitude |-> row.decimalLatitude.v,
     decimalLongitude |-> row.decimalLongitude.v,
     nearest_station |-> station.site_name,
     station_lat |-> station.latitude,
     station_lon |-> station.longitude,
     distance_km |-> dist]

RECURSIVE SumValues(_)
\* the sum of the non-NaN floats of a sequence
SumValues(fs) ==
    IF fs = <<>> THEN 0
    ELSE (IF IsNaN(Head(fs)) THEN 0 ELSE Head(fs).v) + SumValues(Tail(fs))

\* GroupMean dividing by the number of rows, NaN rows included
GroupMeanCountingNaN(fs) ==
    IF fs = <<>> THEN NaN ELSE Num(RDiv(SumValues(fs), Len(fs)))

\* Series.mean() of one group (skipna): NaN when no value is left
GroupMean(fs) ==
    LET n == Cardinality({i \in 1..Len(fs) : ~IsNaN(fs[i])})
    IN  IF n = 0 THEN NaN ELSE Num(RDiv(SumValues(fs), n))

\* the 'dissolved_oxygen' column of the rows of one site
GroupValues(water, name) ==
    LET rows == SelectSeqIdx(water,
                             [i \in 1..Len(water) |-> water[i].site_name = name],
                             1)
    IN  [i \in 1..Len(rows) |-> rows[i].dissolved_oxygen]

\* GroupByMean without the grouping: one aggregate row per reading row
GroupByMeanUngrouped(water) ==
    [i \in 1..Len(water) |->
        [nearest_station |-> water[i].site_name,
         avg_dissolved_oxygen |-> water[i].dissolved_oxygen]]

\* lines 146-147: groupby('site_name')['dissolved_oxygen'].mean()
\* .reset_index(): one row per site name of df_water, sorted by name
GroupByMean(water) ==
    LET present == SelectSeqIdx(SiteOrder,
                                [k \in 1..Len(SiteOrder) |->
                                    \E i \in 1..Len(water) :
                                        water[i].site_name = SiteOrder[k]],
                                1)
    IN  [k \in 1..Len(present) |->
            [nearest_station |-> present[k],
             avg_dissolved_oxygen |-> GroupMean(GroupValues(water, present[k]))]]

\* one row of df_final
FinalRow(l, avg) ==
    [species |-> l.species,
     year |-> l.year,
     decimalLatitude |-> l.decimalLatitude,
     decimalLongitude |-> l.decimalLongitude,
     nearest_station |-> l.nearest_station,
     station_lat |-> l.station_lat,
     station_lon |-> l.station_lon,
     distance_km |-> l.distance_km,
     avg_dissolved_oxygen |-> avg]

\* Merge pairing the rows by position instead of by key
MergeByPosition(left, right) ==
    [i \in 1..Len(left) |->
        FinalRow(left[i],
                 IF i <= Len(right) THEN right[i].avg_dissolved_oxygen
                                    ELSE NaN)]

\* A merge that orders its result by the key of the right frame, the left
\* rows without a match last
MergeOrderedByKey(left, right) ==
    Concat([j \in 1..Len(right) |->
               LET m == SelectSeqIdx(left,
                                     [i \in 1..Len(left) |->
                                         left[i].nearest_station
                                             = right[j].nearest_station],
                                     1)
               IN  [k \in 1..Len(m) |->
                       FinalRow(m[k], right[j].avg_dissolved_oxygen)]])
    \o LET u == SelectSeqIdx(left,
                             [i \in 1..Len(left) |->
                                 \A j \in 1..Len(right) :
                                     right[j].nearest_station
                                         # left[i].nearest_station],
                             1)
       IN  [k \in 1..Len(u) |-> FinalRow(u[k], NaN)]

\* line 149: left.merge(right, on='nearest_station', how='left'): for every
\* left row in order, one row per right row with the same key, and one row
\* with a null aggregate when there is none
Merge(left, right) ==
    Concat([i \in 1..Len(left) |->
        LET m == SelectSeqIdx(right,
                              [j \in 1..Len(right) |->
                                  right[j].nearest_station
                                      = left[i].nearest_station],
                              1)
        IN  IF m = <<>> THEN <<FinalRow(left[i], NaN)>>
            ELSE [k \in 1..Len(m) |->
                     FinalRow(left[i], m[k].avg_dissolved_oxygen)]])

\* lines 106-151
spatial_join(beavers, water) ==
    LET stations == StationTable(water)
        bad == {i \in 1..Len(beavers) : RowError(beavers[i], stations) # "none"}
    IN  IF bad # {}
        THEN Raise(RowError(beavers[CHOOSE i \in bad : \A k \in bad : i <= k],
                            stations))
        ELSE LET joined ==
                   [i \in 1..Len(beavers) |->
                       LET d == DistancesKm(beavers[i], stations)
                           nearest_idx == ArgMin(d)
                       IN  JoinedRow(beavers[i], stations[nearest_idx],
                                     d[nearest_idx])]
             IN  Ok(Merge(joined, GroupByMean(water)))

(***************************************************************************)
(* load_to_rds, lines 154-195.                                             *)
(***************************************************************************)
\* lines 180-189: the tuple inserted for one row of the frame
RdsRow(row) ==
    [species |-> row.species,
     decimal_latitude |-> row.decimalLatitude,
     decimal_longitude |-> row.decimalLongitude,
     year |-> row.year,
     nearest_station |-> row.nearest_station,
     station_lat |-> row.station_lat,
     station_lon |-> row.station_lon,
     distance_km |-> row.distance_km,
     avg_dissolved_oxygen |-> row.avg_dissolved_oxygen]

\* the natural key of a stored row: the subject's coordinates and its date
\* field; table beaver_water_joined holds at most one row per natural key
NaturalKey(row) == <<row.decimal_latitude, row.decimal_longitude, row.year>>

\* whether inserting the row would violate the table's unique constraint
UniqueConflict(table, row) ==
    \E i \in 1..Len(table) : NaturalKey(table[i]) = NaturalKey(row)

RECURSIVE InsertPlain(_, _)
\* INSERT without the ON CONFLICT clause: a conflicting row raises
InsertPlain(table, rows) ==
    IF rows = <<>> THEN [err |-> "none", table |-> table]
    ELSE IF UniqueConflict(table, Head(rows))
    THEN [err |-> "UniqueViolation", table |-> table]
    ELSE InsertPlain(Append(table, Head(rows)), Tail(rows))

RECURSIVE InsertOnConflictDoNothing(_, _)
\* lines 170-178, 191: INSERT ... VALUES rows ON CONFLICT DO NOTHING, on the
\* transaction's view of the table: a conflicting row is skipped
InsertOnConflictDoNothing(table, rows) ==
    IF rows = <<>> THEN [err |-> "none", table |-> table]
    ELSE InsertOnConflictDoNothing(
             IF UniqueConflict(table, Head(rows)) THEN table
             ELSE Append(table, Head(rows)),
             Tail(rows))

\* Rollback on a connection in autocommit mode: what was sent stays
RollbackAutocommit(committed, pending) == pending

\* lines 159-167: the connection is not in autocommit mode, so a transaction
\* that ends without conn.commit() leaves the committed table as it was
Rollback(committed, pending) == committed

\* the ways a call of load_to_rds can go: psycopg2.connect raises, the
\* statement or the commit raises after `sent` rows went out, or all is well
LoadFaults(n) ==
    {[kind |-> "OperationalError", sent |-> 0], [kind |-> "none", sent |-> n]}
    \cup {[kind |-> "DatabaseError", sent |-> k] : k \in 0..n}

\* lines 154-195: the table after load_to_rds(df) and the exception raised
load_to_rds(table, df, fault) ==
    LET rows == [i \in 1..Len(df) |-> RdsRow(df[i])]
        sent == InsertOnConflictDoNothing(table, SubSeq(rows, 1, fault.sent))
    IN  IF fault.kind = "OperationalError"
        THEN [err |-> fault.kind, table |-> table]
        ELSE IF sent.err # "none"
        THEN [err |-> sent.err, table |-> Rollback(table, sent.table)]
        ELSE IF fault.kind # "none"
        THEN [err |-> fault.kind, table |-> Rollback(table, sent.table)]
        ELSE [err |-> "none", table |-> sent.table]

(***************************************************************************)
(* State of one invocation of lambda_handler.                              *)
(***************************************************************************)
VARIABLES
    pc,           \* the stage lambda_handler is at
    offset,       \* fetch_beaver_data: the offset of the next request
    requests,     \* fetch_beaver_data: the requests made and their answers
    all_records,  \* fetch_beaver_data: the raw records received so far
    df_beavers,   \* the frame fetch_beaver_data returned
    time_series,  \* the 'timeSeries' list the USGS API answered
    df_water,     \* the frame fetch_water_quality_data returned
    df_stations,  \* spatial_join: the deduplicated station table
    avg_do,       \* spatial_join: the per-station aggregate table
    df_final,     \* the frame spatial_join returned
    s3_object,    \* the object in the processed bucket
    db_rows,      \* the committed rows of table beaver_water_joined
    statusCode,   \* the response's statusCode, 0 while running
    error,        \* the exception the handler caught, "none" if none
    df_joined     \* the notebook's joined frame (CELL 10), <<>> before it

vars == <<pc, offset, requests, all_records, df_beavers, time_series, df_water,
          df_stations, avg_do, df_final, s3_object, db_rows, statusCode,
          error, df_joined>>

\* line 208: fetch_beaver_data(limit=43145), scaled down to MaxPages pages
\* with the last page cut short as 43145 cuts it
Limit == (MaxPages - 1) * PageSize + (43145 % PageSize)

\* range(0, limit, 300) visiting an offset twice
NextOffsetStuck(off) == off

\* line 36: the step of range(0, limit, 300)
NextOffset(off) == off + PageSize

NoObject == [written |-> FALSE, body |-> <<>>]

Init ==
    /\ pc = "fetch_beavers"
    /\ offset = 0
    /\ requests = <<>>
    /\ all_records = <<>>
    /\ df_beavers = <<>>
    /\ time_series = <<>>
    /\ df_water = <<>>
    /\ df_stations = <<>>
    /\ avg_do = <<>>
    /\ df_final = <<>>
    /\ s3_object = NoObject
    /\ db_rows = <<>>
    /\ statusCode = 0
    /\ error = "none"
    /\ df_joined = <<>>

\* Caught answering as if the run had completed
CaughtAsComplete(e) ==
    /\ pc' = "done"
    /\ statusCode' = StatusComplete
    /\ error' = e

\* an exception that no except clause catches: the handler ends without
\* a response
CaughtNowhere(e) ==
    /\ pc' = "raised"
    /\ statusCode' = statusCode
    /\ error' = e

\* lines 239-244: the except clause of lambda_handler
Caught(e) ==
    /\ pc' = "done"
    /\ statusCode' = StatusFailed
    /\ error' = e

\* lines 36-59: one iteration of the pagination loop of fetch_beaver_data and,
\* when the loop ends with it, the rest of the function
FetchPage ==
    /\ pc = "fetch_beavers"
    /\ offset < Limit
    /\ \E status_code \in StatusCodes, batch \in Batches :
         LET stop == status_code # HttpOk \/ batch = <<>>
             records == IF stop THEN all_records ELSE all_records \o batch
             last == stop \/ NextOffset(offset) >= Limit
             df == BeaverFrame(records)
         IN  /\ requests' = Append(requests,
                                   [offset |-> offset,
                                    status_code |-> status_code,
                                    batch |-> IF status_code = HttpOk
                                              THEN batch ELSE <<>>])
             /\ all_records' = records
             /\ offset' = IF stop THEN offset ELSE NextOffset(offset)
             /\ IF ~last
                THEN UNCHANGED <<pc, df_beavers, statusCode, error>>
                ELSE IF df.ok
                THEN /\ df_beavers' = df.val
                     /\ pc' = "fetch_water"
                     /\ UNCHANGED <<statusCode, error>>
                ELSE /\ Caught(df.err)
                     /\ UNCHANGED df_beavers
    /\ UNCHANGED df_joined
    /\ UNCHANGED <<time_series, df_water, df_stations, avg_do, df_final,
                   s3_object, db_rows>>

\* line 212: fetch_water_quality_data(state_cd='CA')
FetchWaterQualityData ==
    /\ pc = "fetch_water"
    /\ \E status_code \in StatusCodes, ts \in TimeSeriesLists :
         LET df == fetch_water_quality_data(status_code, ts)
         IN  /\ time_series' = (IF status_code = HttpOk THEN ts ELSE <<>>)
             /\ IF df.ok
                THEN /\ df_water' = df.val
                     /\ pc' = "join"
                     /\ UNCHANGED <<statusCode, error>>
                ELSE /\ Caught(df.err)
                     /\ UNCHANGED df_water
    /\ UNCHANGED df_joined
    /\ UNCHANGED <<offset, requests, all_records, df_beavers, df_stations,
                   avg_do, df_final, s3_object, db_rows>>

\* line 217: spatial_join(df_beavers, df_water)
SpatialJoin ==
    /\ pc = "join"
    /\ LET df == spatial_join(df_beavers, df_water)
       IN  /\ df_stations' = StationTable(df_water)
           /\ IF df.ok
              THEN /\ df_final' = df.val
                   /\ avg_do' = GroupByMean(df_water)
                   /\ pc' = "s3_put"
                   /\ UNCHANGED <<statusCode, error>>
              ELSE /\ Caught(df.err)
                   /\ UNCHANGED <<df_final, avg_do>>
    /\ UNCHANGED df_joined
    /\ UNCHANGED <<offset, requests, all_records, df_beavers, time_series,
                   df_water, s3_object, db_rows>>

\* An S3 put whose failure is passed over: the handler goes on to the load
S3PutFailureIgnored ==
    /\ pc = "s3_put"
    /\ \E ok \in BOOLEAN :
         s3_object' = (IF ok THEN [written |-> TRUE, body |-> df_final]
                       ELSE s3_object)
    /\ pc' = "load_rds"
    /\ UNCHANGED <<statusCode, error>>
    /\ UNCHANGED df_joined
    /\ UNCHANGED <<offset, requests, all_records, df_beavers, time_series,
                   df_water, df_stations, avg_do, df_final, db_rows>>

\* lines 221-227: s3.put_object of the CSV of df_final
S3Put ==
    /\ pc = "s3_put"
    /\ \E ok \in BOOLEAN :
         IF ok
         THEN /\ s3_object' = [written |-> TRUE, body |-> df_final]
              /\ pc' = "load_rds"
              /\ UNCHANGED <<statusCode, error>>
         ELSE /\ Caught("ClientError")
              /\ UNCHANGED s3_object
    /\ UNCHANGED df_joined
    /\ UNCHANGED <<offset, requests, all_records, df_beavers, time_series,
                   df_water, df_stations, avg_do, df_final, db_rows>>

\* lines 232-237: load_to_rds(df_final) and the response
LoadToRds ==
    /\ pc = "load_rds"
    /\ \E fault \in LoadFaults(Len(df_final)) :
         LET r == load_to_rds(db_rows, df_final, fault)
         IN  /\ db_rows' = r.table
             /\ IF r.err = "none"
                THEN /\ pc' = "done"
                     /\ statusCode' = StatusComplete
                     /\ UNCHANGED error
                ELSE Caught(r.err)
    /\ UNCHANGED df_joined
    /\ UNCHANGED <<offset, requests, all_records, df_beavers, time_series,
                   df_water, df_stations, avg_do, df_final, s3_object>>

Next ==
    \/ FetchPage
    \/ FetchWaterQualityData
    \/ SpatialJoin
    \/ S3Put
    \/ LoadToRds

Spec == Init /\ [][Next]_vars

(***************************************************************************)
(* Repeated invocations against the same table.  The table outlives an     *)
(* invocation; each invocation is taken at the call of load_to_rds, after  *)
(* its fetches, its join and its S3 put went through.                      *)
(***************************************************************************)
\* the USGS answer of these invocations: one station with two readings
LoadSeries ==
    <<[sourceInfo |-> [siteName |-> "X", latitude |-> 0, longitude |-> 30],
       values |-> <<Raw72, RawBad, Raw80>>]>>

\* lines 205-227: the locals of lambda_handler when it reaches line 232,
\* every page of GBIF having answered 200 with one record
LoadState(recs) ==
    LET beavers == BeaverFrame(recs).val
        water == fetch_water_quality_data(HttpOk, LoadSeries).val
        joined == spatial_join(beavers, water)
    IN  [ok |-> joined.ok,
         offset |-> Len(recs) * PageSize,
         requests |-> [i \in 1..Len(recs) |->
                          [offset |-> (i - 1) * PageSize,
                           status_code |-> HttpOk,
                           batch |-> <<recs[i]>>]],
         all_records |-> recs,
         df_beavers |-> beavers,
         df_water |-> water,
         df_stations |-> StationTable(water),
         avg_do |-> GroupByMean(water),
         df_final |-> joined.val]

\* the invocations that reach line 232
LoadStates ==
    {st \in {LoadState(recs) : recs \in [1..MaxPages -> RawSubjectRows]} :
        st.ok}

InitLoad ==
    \E st \in LoadStates :
          /\ pc = "load_rds"
          /\ offset = st.offset
          /\ requests = st.requests
          /\ all_records = st.all_records
          /\ df_beavers = st.df_beavers
          /\ time_series = LoadSeries
          /\ df_water = st.df_water
          /\ df_stations = st.df_stations
          /\ avg_do = st.avg_do
          /\ df_final = st.df_final
          /\ s3_object = [written |-> TRUE, body |-> st.df_final]
          /\ db_rows = <<>>
          /\ statusCode = 0
          /\ error = "none"
          /\ df_joined = <<>>

\* lines 198-227 of the next invocation: the table is what the earlier
\* invocations left, the S3 object is overwritten
Reinvoke ==
    /\ pc = "done"
    /\ \E st \in LoadStates :
             /\ pc' = "load_rds"
             /\ offset' = st.offset
             /\ requests' = st.requests
             /\ all_records' = st.all_records
             /\ df_beavers' = st.df_beavers
             /\ time_series' = LoadSeries
             /\ df_water' = st.df_water
             /\ df_stations' = st.df_stations
             /\ avg_do' = st.avg_do
             /\ df_final' = st.df_final
             /\ s3_object' = [written |-> TRUE, body |-> st.df_final]
             /\ statusCode' = 0
             /\ error' = "none"
    /\ UNCHANGED <<db_rows, df_joined>>

NextLoad ==
    \/ LoadToRds
    \/ Reinvoke

SpecLoad == InitLoad /\ [][NextLoad]_vars

(***************************************************************************)
(* The notebook's matcher, CELL 9 and CELL 10 of beaver_data_engineer.py,  *)
(* run on the frames the handler's spatial_join is given.                  *)
(***************************************************************************)
\* BallTree(metric='haversine'): the angle in radians * SCALE between two
\* points given in radians (units of pi/24)
HaversineAngle(lat1, lon1, lat2, lon2) ==
    LET sdlat == Sin((lat2 - lat1) \div 2)
        sdlon == Sin((lon2 - lon1) \div 2)
        a == RMul(sdlat, sdlat)
             + RMul(RMul(Cos(lat1), Cos(lat2)), RMul(sdlon, sdlon))
        r == Arcsin(Sqrt(a))
    IN  IF IsNaN(r) THEN NaN ELSE Num(2 * r.v)

\* CELL 9: the angles from one subject row to every row of the station table
TreeDistances(row, stations) ==
    [j \in 1..Len(stations) |->
        HaversineAngle(Radians(row.decimalLatitude.v),
                       Radians(row.decimalLongitude.v),
                       Radians(stations[j].latitude),
                       Radians(stations[j].longitude))]

\* CELL 9: tree.query(point, k=1): the index of a station at the least
\* distance; which one of several at that distance is the tree's affair
TreeQuery(d) ==
    {i \in 1..Len(d) : \A k \in 1..Len(d) : d[i].v <= d[k].v}

\* CELL 9: distances_km = distances * 6371
DistanceKm(angle) == Num(RDiv(angle.v * EarthRadiusKm, SCALE))

\* subject records inside the coordinate ranges: two away from every
\* station and one at the place of a station
MatchSubjectRows ==
    { RawSubject(2019, Number(0), Number(0)),
      RawSubject(2020, Number(30), Number(0)),
      RawSubject(2024, Number(0), Number(30)) }

\* both programs hold the same frames: the handler at line 217, the
\* notebook at CELL 9
InitMatch ==
    \E recs \in [1..MaxPages -> MatchSubjectRows],
       ts \in TimeSeriesLists \ {<<>>} :
      /\ pc = "join"
      /\ offset = Len(recs) * PageSize
      /\ requests = [i \in 1..Len(recs) |->
                        [offset |-> (i - 1) * PageSize,
                         status_code |-> HttpOk,
                         batch |-> <<recs[i]>>]]
      /\ all_records = recs
      /\ df_beavers = BeaverFrame(recs).val
      /\ time_series = ts
      /\ df_water = fetch_water_quality_data(HttpOk, ts).val
      /\ df_stations = <<>>
      /\ avg_do = <<>>
      /\ df_final = <<>>
      /\ s3_object = NoObject
      /\ db_rows = <<>>
      /\ statusCode = 0
      /\ error = "none"
      /\ df_joined = <<>>

\* CELL 9 and CELL 10: the station table, the tree query for every subject
\* row and the joined frame
NotebookJoin ==
    /\ df_joined = <<>>
    /\ LET stations == DropDuplicates(
                           [i \in 1..Len(df_water) |->
                               [site_name |-> df_water[i].site_name,
                                latitude |-> df_water[i].latitude,
                                longitude |-> df_water[i].longitude]])
       IN  \E indices \in [1..Len(df_beavers) -> 1..Len(stations)] :
             /\ \A i \in 1..Len(df_beavers) :
                  indices[i] \in TreeQuery(TreeDistances(df_beavers[i],
                                                         stations))
             /\ df_joined' =
                  [i \in 1..Len(df_beavers) |->
                      JoinedRow(df_beavers[i], stations[indices[i]],
                                DistanceKm(TreeDistances(df_beavers[i],
                                                         stations)
                                               [indices[i]]))]
    /\ UNCHANGED <<pc, offset, requests, all_records, df_beavers, time_series,
                   df_water, df_stations, avg_do, df_final, s3_object,
                   db_rows, statusCode, error>>

NextMatch ==
    \/ SpatialJoin
    \/ NotebookJoin

SpecMatch == InitMatch /\ [][NextMatch]_vars

(***************************************************************************)
(* Vocabulary of the properties.                                           *)
(***************************************************************************)
\* spatial_join has returned: df_stations, avg_do and df_final are its
\* station table, aggregate table and result
JoinDone ==
    \/ pc \in {"s3_put", "load_rds"}
    \/ pc = "done" /\ error \in {"none", "ClientError", "OperationalError",
                                 "DatabaseError"}

\* fetch_beaver_data has returned or raised
BeaversFetched == pc # "fetch_beavers"

\* the range invariant of a SubjectPoint, on a row of df_beavers
InRange(row) ==
    /\ row.decimalLatitude.kind = "num"
    /\ row.decimalLongitude.kind = "num"
    /\ row.decimalLatitude.v >= -90 /\ row.decimalLatitude.v <= 90
    /\ row.decimalLongitude.v >= -180 /\ row.decimalLongitude.v <= 180

\* the distance in km from a subject row to a place given in degrees
DistTo(row, lat, lon) ==
    Haversine(Radians(row.decimalLatitude.v), Radians(row.decimalLongitude.v),
              Radians(lat), Radians(lon))

\* d1 < d2 on floats: false when either is NaN
Less(d1, d2) == ~IsNaN(d1) /\ ~IsNaN(d2) /\ d1.v < d2.v

\* the row of the station table a joined record carries
StationOf(r) ==
    [site_name |-> r.nearest_station, latitude |-> r.station_lat,
     longitude |-> r.station_lon]

\* the positions of a station row in the station table
PositionsOf(st) == {j \in 1..Len(df_stations) : df_stations[j] = st}

\* the readings of a site whose value is a number: indices into df_water
NumericReadings(name) ==
    {i \in 1..Len(df_water) :
        df_water[i].site_name = name /\ ~IsNaN(df_water[i].dissolved_oxygen)}

RECURSIVE SumOver(_)
\* the sum of the readings with the indices of a set
SumOver(idx) ==
    IF idx = {} THEN 0
    ELSE LET i == CHOOSE k \in idx : TRUE
         IN  df_water[i].dissolved_oxygen.v + SumOver(idx \ {i})

\* the places (latitude, longitude) of the stations of the readings
ReadingPlaces ==
    { <<df_water[w].latitude, df_water[w].longitude>> : w \in 1..Len(df_water) }

\* the raw values, in order, of the readings of a site
RawValuesOf(name) ==
    Concat([k \in 1..Len(time_series) |->
              IF time_series[k].sourceInfo.siteName = name
              THEN time_series[k].values ELSE <<>>])

(***************************************************************************)
(* C1.  For every subject point (a row of df_beavers that satisfies the    *)
(* SubjectPoint range invariant) and every non-empty station table, the    *)
(* joined record of the point names a row of the station table, no station *)
(* of the readings is strictly closer to the point than the reported       *)
(* distance_km, and distance_km is the distance to the assigned station.   *)
(***************************************************************************)
MatcherArgMin ==
    JoinDone =>
      \A i \in 1..Len(df_beavers) :
        InRange(df_beavers[i]) =>
          /\ i <= Len(df_final)
          /\ LET r == df_final[i]
                 p == df_beavers[i]
             IN  /\ r.decimalLatitude = p.decimalLatitude.v
                 /\ r.decimalLongitude = p.decimalLongitude.v
                 /\ PositionsOf(StationOf(r)) # {}
                 /\ ~IsNaN(r.distance_km)
                 /\ r.distance_km = DistTo(p, r.station_lat, r.station_lon)
                 /\ \A c \in ReadingPlaces :
                      ~Less(DistTo(p, c[1], c[2]), r.distance_km)

\* a subject point matched to a station that is not the first row of the
\* table, with another station strictly farther away
MatcherArgMinWitness ==
    /\ JoinDone
    /\ \E i \in 1..Len(df_final) :
         /\ InRange(df_beavers[i])
         /\ 1 \notin PositionsOf(StationOf(df_final[i]))
         /\ \E j \in 1..Len(df_stations) :
              Less(df_final[i].distance_km,
                   DistTo(df_beavers[i], df_stations[j].latitude,
                          df_stations[j].longitude))

(***************************************************************************)
(* C2.  When several station rows are at the minimum distance from a       *)
(* subject point, the joined record carries the one that comes first in    *)
(* the station table.                                                      *)
(***************************************************************************)
TieBreakFirst ==
    JoinDone =>
      \A i \in 1..Len(df_final) :
        InRange(df_beavers[i]) =>
          \A j \in 1..Len(df_stations) :
            (DistTo(df_beavers[i], df_stations[j].latitude,
                    df_stations[j].longitude) = df_final[i].distance_km)
              => \E k \in PositionsOf(StationOf(df_final[i])) : k <= j

\* station table [X, Y] with X and Y at different places, both at the
\* minimum distance from a subject point, which is matched to X
TieBreakFirstWitness ==
    /\ JoinDone
    /\ Len(df_stations) = 2
    /\ df_stations[1].site_name = "X"
    /\ df_stations[2].site_name = "Y"
    /\ df_stations[1].longitude # df_stations[2].longitude
    /\ \E i \in 1..Len(df_final) :
         /\ InRange(df_beavers[i])
         /\ df_final[i].nearest_station = "X"
         /\ DistTo(df_beavers[i], df_stations[2].latitude,
                   df_stations[2].longitude) = df_final[i].distance_km

(***************************************************************************)
(* C3.  Left-join completeness: spatial_join returns as many joined        *)
(* records as it was given subject points, whatever the aggregates.        *)
(***************************************************************************)
LeftJoinComplete ==
    JoinDone => Len(df_final) = Len(df_beavers)

\* two subject points joined, one to a station with an aggregate and one to
\* a station without
LeftJoinCompleteWitness ==
    /\ JoinDone
    /\ Len(df_beavers) = 2
    /\ \E i, j \in 1..Len(df_final) :
         /\ IsNaN(df_final[i].avg_dissolved_oxygen)
         /\ ~IsNaN(df_final[j].avg_dissolved_oxygen)

(***************************************************************************)
(* C4.  The station table holds exactly one entry per station identifier   *)
(* (and so, for an identifier read with conflicting coordinates, only the  *)
(* coordinates of its first occurrence).                                   *)
(***************************************************************************)
OneEntryPerStationId ==
    JoinDone =>
      \A i, j \in 1..Len(df_stations) :
        df_stations[i].site_name = df_stations[j].site_name => i = j

(***************************************************************************)
(* C5.  A non-empty subject set met by an empty station set ends the run   *)
(* in failure, and no joined record is emitted: nothing is written to S3   *)
(* or to the database.                                                     *)
(***************************************************************************)
NoStationsIsFatal ==
    (/\ pc \notin {"fetch_beavers", "fetch_water"}
     /\ df_beavers # <<>>
     /\ df_water = <<>>)
      => /\ pc = "done"
         /\ statusCode = StatusFailed
         /\ error # "none"
         /\ df_final = <<>>
         /\ ~s3_object.written
         /\ db_rows = <<>>

\* the USGS API answered 200 with no reading at all, after subject points
\* had been fetched
NoStationsIsFatalWitness ==
    /\ pc = "done"
    /\ df_beavers # <<>>
    /\ df_water = <<>>
    /\ error = "KeyError"

(***************************************************************************)
(* C6.  A run whose subject set is empty after validation fails: it does   *)
(* not complete with an empty joined result.                               *)
(***************************************************************************)
NoSubjectsIsFatal ==
    (pc = "done" /\ df_beavers = <<>>) => statusCode = StatusFailed

(***************************************************************************)
(* C7.  Every subject point that leaves validation has its latitude in     *)
(* [-90, 90] and its longitude in [-180, 180] (rows with a missing,        *)
(* non-numeric or out-of-range coordinate have been dropped).              *)
(***************************************************************************)
ValidatedInRange ==
    BeaversFetched => \A i \in 1..Len(df_beavers) : InRange(df_beavers[i])

(***************************************************************************)
(* C8.  The aggregate of a station is the arithmetic mean of exactly its   *)
(* readings whose value coerces to a number: an uncoercible value is left  *)
(* out of the sum and of the count, and the values "7.2", "bad", "8.0"     *)
(* give 7.6.                                                               *)
(***************************************************************************)
MeanOfNumericReadings ==
    JoinDone =>
      \A k \in 1..Len(avg_do) :
        LET name == avg_do[k].nearest_station
            mean == avg_do[k].avg_dissolved_oxygen
            idx == NumericReadings(name)
            n == Cardinality(idx)
        IN  /\ n > 0 =>
                 /\ ~IsNaN(mean)
                 /\ 2 * Abs(n * mean.v - SumOver(idx)) <= n
            /\ RawValuesOf(name) = <<Raw72, RawBad, Raw80>>
                 => mean = Num(76 * (SCALE \div 10))

\* a station read as "7.2", "bad", "8.0" and aggregated
MeanOfNumericReadingsWitness ==
    /\ JoinDone
    /\ \E k \in 1..Len(avg_do) :
         /\ RawValuesOf(avg_do[k].nearest_station)
              = <<Raw72, RawBad, Raw80>>
         /\ ~IsNaN(avg_do[k].avg_dissolved_oxygen)

(***************************************************************************)
(* C9.  A station all of whose readings are null has no row in the         *)
(* per-station aggregate table.                                            *)
(***************************************************************************)
AllNullStationAbsent ==
    JoinDone =>
      \A i \in 1..Len(df_water) :
        NumericReadings(df_water[i].site_name) = {}
          => \A k \in 1..Len(avg_do) :
               avg_do[k].nearest_station # df_water[i].site_name

(***************************************************************************)
(* C10.  In every joined record the metric value is the aggregate of the   *)
(* record's own matched station, looked up by station identifier; it is    *)
(* null exactly when that station has no non-null reading to aggregate;    *)
(* and the subject row is kept then.                                       *)
(***************************************************************************)
MetricOfMatchedStation ==
    JoinDone =>
      /\ Len(df_final) = Len(df_beavers)
      /\ \A i \in 1..Len(df_final) :
           LET r == df_final[i]
               rows == {k \in 1..Len(avg_do) :
                          avg_do[k].nearest_station = r.nearest_station}
           IN  /\ \A k \in rows :
                    r.avg_dissolved_oxygen = avg_do[k].avg_dissolved_oxygen
               /\ Cardinality(rows) <= 1
               /\ IsNaN(r.avg_dissolved_oxygen)
                    <=> NumericReadings(r.nearest_station) = {}

\* two joined records, the first with a station that has an aggregate and
\* the second with another station that has none
MetricOfMatchedStationWitness ==
    /\ JoinDone
    /\ Len(df_final) = 2
    /\ ~IsNaN(df_final[1].avg_dissolved_oxygen)
    /\ IsNaN(df_final[2].avg_dissolved_oxygen)
    /\ df_final[1].nearest_station # df_final[2].nearest_station


(***************************************************************************)
(* C11.  The joined records keep the order of the subject points: the      *)
(* i-th record of the result carries the subject attributes of the i-th    *)
(* subject row that entered the join, and this is still so after the       *)
(* aggregate has been merged in.                                           *)
(***************************************************************************)
SubjectOrderPreserved ==
    JoinDone =>
      /\ Len(df_final) = Len(df_beavers)
      /\ \A i \in 1..Len(df_final) :
           /\ df_final[i].species = df_beavers[i].species
           /\ df_final[i].year = df_beavers[i].year
           /\ df_final[i].decimalLatitude = df_beavers[i].decimalLatitude.v
           /\ df_final[i].decimalLongitude = df_beavers[i].decimalLongitude.v

\* two different subjects whose stations come in the other order in the
\* table of aggregates, which is sorted by station identifier
SubjectOrderPreservedWitness ==
    /\ JoinDone
    /\ Len(df_final) = 2
    /\ df_final[1].year # df_final[2].year
    /\ \E a, b \in 1..Len(avg_do) :
         /\ a < b
         /\ avg_do[b].nearest_station = df_final[1].nearest_station
         /\ avg_do[a].nearest_station = df_final[2].nearest_station


(***************************************************************************)
(* C12.  Persistence is idempotent across invocations: however often the   *)
(* same or overlapping joined records are loaded, the table never holds    *)
(* two rows for the same subject occurrence, a load is never refused       *)
(* because a row is already stored, and after a load that returned every   *)
(* record of the frame is stored.                                          *)
(***************************************************************************)
IdempotentLoad ==
    /\ \A i, j \in 1..Len(db_rows) :
         NaturalKey(db_rows[i]) = NaturalKey(db_rows[j]) => i = j
    /\ error # "UniqueViolation"
    /\ (pc = "done" /\ statusCode = StatusComplete) =>
         \A i \in 1..Len(df_final) :
           \E j \in 1..Len(db_rows) :
             NaturalKey(db_rows[j]) = NaturalKey(RdsRow(df_final[i]))

\* a load of two different records went through although the first of
\* them was in the table before the load began (the table's second row
\* is not of this frame, so its first row is older than the load)
IdempotentLoadWitness ==
    /\ pc = "done" /\ statusCode = StatusComplete
    /\ Len(df_final) = 2 /\ Len(db_rows) = 3
    /\ NaturalKey(RdsRow(df_final[1])) = NaturalKey(db_rows[1])
    /\ NaturalKey(RdsRow(df_final[2])) = NaturalKey(db_rows[3])

(***************************************************************************)
(* C13.  The write is all or nothing: a call of load_to_rds either returns *)
(* with every row of the frame stored, the rows stored before kept, or     *)
(* fails and leaves the table exactly as it was.                           *)
(***************************************************************************)
LoadAllOrNothing ==
    [][pc = "load_rds" =>
         \/ /\ statusCode' = StatusComplete
            /\ Len(db_rows') >= Len(db_rows)
            /\ SubSeq(db_rows', 1, Len(db_rows)) = db_rows
            /\ \A i \in 1..Len(df_final) :
                 \E j \in 1..Len(db_rows') : db_rows'[j] = RdsRow(df_final[i])
                    \/ (j <= Len(db_rows)
                        /\ NaturalKey(db_rows'[j])
                             = NaturalKey(RdsRow(df_final[i])))
         \/ /\ statusCode' = StatusFailed
            /\ db_rows' = db_rows]_vars

\* the statement failed on a frame of two records, in front of a table
\* that holds an earlier record and neither of the two
LoadAllOrNothingWitness ==
    /\ pc = "done" /\ error = "DatabaseError"
    /\ Len(df_final) = 2 /\ Len(db_rows) = 1
    /\ \A i \in 1..2 :
         NaturalKey(RdsRow(df_final[i])) # NaturalKey(db_rows[1])


\* the stages of lambda_handler in the order of its statements
Stages == <<"fetch_beavers", "fetch_water", "join", "s3_put", "load_rds">>

(***************************************************************************)
(* C16.  lambda_handler runs its stages in the fixed order fetch subjects, *)
(* fetch readings, join, S3 put, database load: a stage is entered only    *)
(* from the stage before it and only when that stage ended without an      *)
(* exception, and a failed stage ends the run.  The response has           *)
(* statusCode 200 only when the S3 object holds the joined frame and the   *)
(* database load has committed it.                                         *)
(***************************************************************************)
StagesInOrder ==
    /\ [](statusCode = StatusComplete =>
            /\ pc = "done" /\ error = "none"
            /\ s3_object = [written |-> TRUE, body |-> df_final]
            /\ \A i \in 1..Len(df_final) :
                 \E j \in 1..Len(db_rows) :
                   NaturalKey(db_rows[j]) = NaturalKey(RdsRow(df_final[i])))
    /\ [][pc' # pc =>
            \E k \in 1..Len(Stages) :
              /\ pc = Stages[k]
              /\ \/ /\ k < Len(Stages)
                    /\ pc' = Stages[k + 1]
                    /\ statusCode' = 0 /\ error' = "none"
                 \/ /\ k = Len(Stages)
                    /\ pc' = "done"
                    /\ statusCode' = StatusComplete /\ error' = "none"
                 \/ /\ pc' = "done"
                    /\ statusCode' = StatusFailed /\ error' # "none"]_vars

\* a run that completed with two joined records stored
StagesInOrderWitness ==
    /\ pc = "done" /\ statusCode = StatusComplete
    /\ Len(df_final) = 2 /\ Len(db_rows) = 2
    /\ s3_object.written

(***************************************************************************)
(* C17.  No exception escapes lambda_handler: the handler is in one of    *)
(* its stages, with no response yet, or it has ended, and a run that       *)
(* ended has statusCode 500 and a failure message when a stage raised and  *)
(* statusCode 200 otherwise; there is no third outcome.                    *)
(***************************************************************************)
TwoOutcomes ==
    /\ pc \in {Stages[k] : k \in 1..Len(Stages)} \cup {"done"}
    /\ pc # "done" => (statusCode = 0 /\ error = "none")
    /\ pc = "done" => \/ statusCode = StatusComplete /\ error = "none"
                      \/ statusCode = StatusFailed /\ error # "none"

\* the S3 put raised after a join of two records: 500, nothing loaded
TwoOutcomesWitness ==
    /\ pc = "done" /\ statusCode = StatusFailed /\ error = "ClientError"
    /\ Len(df_final) = 2 /\ db_rows = <<>>


\* the positions in the request log of the pages that end the pagination:
\* a status other than 200, or an empty batch
EndingPages ==
    {i \in 1..Len(requests) :
        requests[i].status_code # HttpOk \/ requests[i].batch = <<>>}

\* the number of pages received before the first ending page
PagesBefore ==
    IF EndingPages = {} THEN Len(requests)
    ELSE (CHOOSE i \in EndingPages : \A k \in EndingPages : i <= k) - 1

(***************************************************************************)
(* C18.  fetch_beaver_data stops paginating at the first page that answers *)
(* with a status other than 200 or with an empty batch, issues no request  *)
(* after it, and returns the records of the pages received before that     *)
(* page, those with non-null coordinates, instead of failing.              *)
(***************************************************************************)
PartialPagesReturned ==
    BeaversFetched =>
      /\ EndingPages # {} => Len(requests) = PagesBefore + 1
      /\ ~(pc = "done" /\ error = "KeyError" /\ all_records = <<>>)
      /\ df_beavers
           = DropNa(Concat([i \in 1..PagesBefore |-> requests[i].batch]))

(***************************************************************************)
(* C19.  fetch_beaver_data terminates: it issues at most ceil(limit/300)   *)
(* requests, at the offsets 0, 300, 600, ... in increasing order, each at  *)
(* most once and none at limit or beyond, and every turn of its loop       *)
(* issues one more of them.                                                *)
(***************************************************************************)
PaginationBounded ==
    /\ [](/\ Len(requests) <= (Limit + PageSize - 1) \div PageSize
          /\ \A i \in 1..Len(requests) :
               /\ requests[i].offset = (i - 1) * PageSize
               /\ requests[i].offset < Limit
          /\ \A i, j \in 1..Len(requests) :
               i < j => requests[i].offset < requests[j].offset)
    /\ [][pc = "fetch_beavers" =>
            /\ Len(requests') = Len(requests) + 1
            /\ pc' = "fetch_beavers" => offset' > offset]_vars

\* the loop ran to its last offset, the last page cut short by the limit
PaginationBoundedWitness ==
    /\ BeaversFetched
    /\ Len(requests) = MaxPages
    /\ EndingPages = {}
    /\ requests[MaxPages].offset + PageSize > Limit


\* both matchers have run on the same frames
BothJoined == pc = "s3_put" /\ df_joined # <<>>

DistanceSymmetric ==
    JoinDone =>
      LET P == {<<Radians(df_final[i].decimalLatitude),
                  Radians(df_final[i].decimalLongitude)>> :
                    i \in 1..Len(df_final)}
               \cup {<<Radians(df_stations[j].latitude),
                       Radians(df_stations[j].longitude)>> :
                         j \in 1..Len(df_stations)}
      IN  /\ \A i \in 1..Len(df_final) :
               df_final[i].distance_km
                 = Haversine(Radians(df_final[i].station_lat),
                             Radians(df_final[i].station_lon),
                             Radians(df_final[i].decimalLatitude),
                             Radians(df_final[i].decimalLongitude))
          /\ \A p, q \in P :
               Haversine(p[1], p[2], q[1], q[2])
                 = Haversine(q[1], q[2], p[1], p[2])
          /\ \A p \in P : Haversine(p[1], p[2], p[1], p[2]) = Num(0)

\* a subject at the place of its station, at distance 0, and a subject
\* whose station differs from it in latitude and in longitude
DistanceSymmetricWitness ==
    /\ JoinDone
    /\ Len(df_final) = 2
    /\ df_final[1].distance_km = Num(0)
    /\ df_final[2].station_lat # df_final[2].decimalLatitude
    /\ df_final[2].station_lon # df_final[2].decimalLongitude
    /\ df_final[2].distance_km.v > 0

=============================================================================
